---- MODULE Spec2Model ----
(***************************************************************************)
(* Model of Api.prototype.request (workfront-api): request construction,   *)
(* the server (http) transport with its response handlers, and the         *)
(* browser (JSONP) transport with its global callback slot.                *)
(*                                                                         *)
(* A JavaScript string is a sequence of atoms; an atom is a short piece of *)
(* text whose length is known ("fields", "=", "%2C").  Concatenation is    *)
(* \o, length is the sum of the atoms' lengths.  A JavaScript value is a   *)
(* record tagged by its type in field t.                                   *)
(***************************************************************************)
EXTENDS Integers, Sequences, FiniteSets, TLC

VARIABLES
    isBrowser,      \* this.isBrowser
    httpParams,     \* this.httpParams: the instance's default parameters
    httpOptions,    \* this.httpOptions: protocol, host, port, path, headers
    httpOptions0,   \* history: this.httpOptions as configured at construction
    objs,           \* the caller's params objects, by identity
    objs0,          \* history: the caller's objects as the caller built them
    sent,           \* what the last call handed to its transport
    calls,          \* per call: the promise and the closure of its handlers
    windowCallback, \* window['callback']: the call whose closure it holds, 0 if unset
    inflight        \* JSONP scripts injected and not yet executed

vars == <<isBrowser, httpParams, httpOptions, httpOptions0, objs, objs0,
          sent, calls, windowCallback, inflight>>

(***************************************************************************)
(* Bounds.                                                                 *)
(***************************************************************************)
MaxCalls == 2
MaxBody == 4
MaxJsonpCalls == 2

(***************************************************************************)
(* Strings.                                                                *)
(***************************************************************************)
\* The atom standing for the one character U+00E9 (two bytes in UTF-8).
EAcute == "U+00E9"

\* String.prototype.length: UTF-16 code units.
AtomLength(a) == IF a = EAcute THEN 1 ELSE Len(a)

RECURSIVE Length(_)
Length(s) == IF s = <<>> THEN 0 ELSE AtomLength(Head(s)) + Length(Tail(s))

\* Byte length of the string in UTF-8.
AtomBytes(a) == IF a = EAcute THEN 2 ELSE Len(a)

RECURSIVE ByteLength(_)
ByteLength(s) == IF s = <<>> THEN 0 ELSE AtomBytes(Head(s)) + ByteLength(Tail(s))

RECURSIVE Join(_, _)
\* Array.prototype.join: the strings of list, sep between neighbours.
Join(list, sep) ==
    IF list = <<>> THEN <<>>
    ELSE IF Len(list) = 1 THEN Head(list)
    ELSE Head(list) \o sep \o Join(Tail(list), sep)

(***************************************************************************)
(* Objects: a sequence of <<key, value>> pairs in insertion order.         *)
(***************************************************************************)
Keys(o) == {o[i][1] : i \in 1..Len(o)}
Has(o, k) == k \in Keys(o)
Get(o, k) == o[CHOOSE i \in 1..Len(o) : o[i][1] = k][2]

\* o[k] = v: an existing key keeps its place, a new key goes last.
Put(o, k, v) ==
    IF Has(o, k)
    THEN [i \in 1..Len(o) |-> IF o[i][1] = k THEN <<k, v>> ELSE o[i]]
    ELSE Append(o, <<k, v>>)

RECURSIVE Extend(_, _)
\* util._extend(origin, add): every key of add is assigned into origin.
Extend(origin, add) ==
    IF add = <<>> THEN origin
    ELSE Extend(Put(origin, Head(add)[1], Head(add)[2]), Tail(add))

(***************************************************************************)
(* querystring.stringify.                                                  *)
(***************************************************************************)
\* querystring.escape on one atom: percent-encoding of the UTF-8 bytes.
EscapeAtom(a) ==
    CASE a = EAcute -> "%C3%A9"
      [] a = ","    -> "%2C"
      [] a = "/"    -> "%2F"
      [] OTHER      -> a

Escape(s) == [i \in 1..Len(s) |-> EscapeAtom(s[i])]

Stringify(o) ==
    Join([i \in 1..Len(o) |-> Escape(<<o[i][1]>>) \o <<"=">> \o Escape(o[i][2])],
         <<"&">>)

(***************************************************************************)
(* Api.Methods and requestHasData.                                         *)
(***************************************************************************)
Methods == {"GET", "POST", "PUT", "DELETE"}

requestHasDataPostOnly(method) == method = "POST"

requestHasData(method) == method # "GET" /\ method # "PUT"

(***************************************************************************)
(* Values.                                                                 *)
(***************************************************************************)
Undefined == [t |-> "undefined"]
JNull == [t |-> "null"]
JStr(s) == [t |-> "string", s |-> s]
JObj(e, d) == [t |-> "object", error |-> e, data |-> d]
ErrorObj(code) == [t |-> "Error", code |-> code]

JNum(n) == [t |-> "number", n |-> n]


(***************************************************************************)
(* Promises: resolve and reject act on a pending promise only.             *)
(***************************************************************************)
Pending == [state |-> "pending", value |-> Undefined]
Resolve(p, v) == IF p.state = "pending" THEN [state |-> "fulfilled", value |-> v] ELSE p
Reject(p, v) == IF p.state = "pending" THEN [state |-> "rejected", value |-> v] ELSE p

(***************************************************************************)
(* The inputs of request().                                                *)
(***************************************************************************)
\* No params argument (null or undefined).
Null == "null"
ObjIds == {"o1"}

NoFields == [kind |-> "none"]
FieldChoices ==
    { NoFields,
      [kind |-> "string", s |-> <<"name">>],
      [kind |-> "array", a |-> << <<"name">>, <<"ID">> >>] }

PathChoices == { <<"/", "task">>, <<"task">> }

ParamChoices ==
    { << >>,
      << <<"name", <<"x">>>> >>,
      << <<"apiKey", <<"mine">>>>, <<"q", <<EAcute>>>> >> }

HttpParamChoices == { << >>, << <<"apiKey", <<"k1">>>> >> }

ConfiguredOptions ==
    [protocol |-> <<"https:">>, host |-> <<"localhost">>, port |-> <<"443">>,
     path |-> <<"/", "attask", "/", "api">>, headers |-> << >>]

(***************************************************************************)
(* Api.prototype.request.                                                  *)
(***************************************************************************)
\* fields = fields || []; a string becomes a one-element array.
NormalizeFields(fields) ==
    CASE fields.kind = "none"   -> << >>
      [] fields.kind = "string" -> IF fields.s = << >> THEN << >> ELSE <<fields.s>>
      [] fields.kind = "array"  -> fields.a

JoinPathAlwaysSeparator(base, path) == base \o <<"/">> \o path

\* options.path before any query string.
JoinPath(base, path) ==
    IF path # << >> /\ path[1] = "/" THEN base \o path ELSE base \o <<"/">> \o path

\* params after the merge of the defaults and the fields entry.
MergedParams(given, fields) ==
    LET merged == Extend(given, httpParams)
        flds == NormalizeFields(fields)
    IN  IF flds # << >> THEN Put(merged, "fields", Join(flds, <<",">>)) ELSE merged

ContentLengthOf(paramsQS) == JNum(Length(paramsQS))

\* options.headers is this.httpOptions.headers itself: the copy is shallow.
HeadersAfter(paramsQS, method) ==
    IF paramsQS # << >> /\ requestHasData(method)
    THEN Put(Put(httpOptions.headers, "Content-Type",
                 JStr(<<"application/x-www-form-urlencoded">>)),
             "Content-Length", ContentLengthOf(paramsQS))
    ELSE httpOptions.headers

OptionsPath(path, paramsQS, method) ==
    IF paramsQS # << >> /\ ~requestHasData(method) /\ ~isBrowser
    THEN JoinPath(httpOptions.path, path) \o <<"?">> \o paramsQS
    ELSE JoinPath(httpOptions.path, path)

\* request.write(paramsQS), when it happens.
Written(paramsQS, method) ==
    IF paramsQS # << >> /\ requestHasData(method) THEN <<paramsQS>> ELSE << >>

JsonpParams(params, method) ==
    Extend(params, << <<"jsonp", <<"callback">>>>, <<"method", <<method>>>> >>)

NewCall ==
    [promise |-> Pending, responded |-> FALSE, body |-> << >>,
     arrived |-> << >>, first |-> "none", firstArrived |-> << >>,
     clobbered |-> FALSE, by |-> 0,
     payload |-> Undefined, target |-> 0, issuedAt |-> 0]

request(path, o, fields, method) ==
    LET given == IF o = Null THEN << >> ELSE objs[o]
        params == MergedParams(given, fields)
        paramsQS == Stringify(params)
        headers == HeadersAfter(paramsQS, method)
        optPath == OptionsPath(path, paramsQS, method)
        final == IF isBrowser THEN JsonpParams(params, method) ELSE params
        url == IF isBrowser
               THEN httpOptions.protocol \o <<"//">> \o httpOptions.host \o <<":">>
                    \o httpOptions.port \o optPath \o <<"?">> \o Stringify(final)
               ELSE << >>
        n == Len(calls) + 1
    IN  /\ objs' = IF o = Null THEN objs ELSE [objs EXCEPT ![o] = final]
        /\ httpOptions' = [httpOptions EXCEPT !.headers = headers]
        /\ sent' = [transport |-> IF isBrowser THEN "jsonp" ELSE "http",
                    method |-> method, pathArg |-> path, obj |-> o,
                    given |-> given, params |-> params, qs |-> paramsQS,
                    path |-> optPath, headers |-> headers,
                    written |-> IF isBrowser THEN << >> ELSE Written(paramsQS, method),
                    url |-> url]
        /\ calls' = Append([c \in 1..Len(calls) |->
                              IF isBrowser /\ c = windowCallback
                                 /\ calls[c].promise.state = "pending"
                              THEN [calls[c] EXCEPT !.clobbered = TRUE]
                              ELSE calls[c]],
                           NewCall)
        /\ windowCallback' = IF isBrowser THEN n ELSE windowCallback
        /\ inflight' = IF isBrowser THEN inflight \cup {n} ELSE inflight
        /\ UNCHANGED <<isBrowser, httpParams, httpOptions0, objs0>>

NoneSent ==
    [transport |-> "none", method |-> "GET", pathArg |-> << >>, obj |-> Null,
     given |-> << >>, params |-> << >>, qs |-> << >>, path |-> << >>,
     headers |-> << >>, written |-> << >>, url |-> << >>]

(***************************************************************************)
(* Request construction: any sequence of calls on one instance.            *)
(***************************************************************************)
Init ==
    /\ isBrowser \in BOOLEAN
    /\ httpParams \in HttpParamChoices
    /\ httpOptions = ConfiguredOptions
    /\ httpOptions0 = httpOptions
    /\ objs \in [ObjIds -> ParamChoices]
    /\ objs0 = objs
    /\ sent = NoneSent
    /\ calls = << >>
    /\ windowCallback = 0
    /\ inflight = {}

Request ==
    /\ Len(calls) < MaxCalls
    /\ \E path \in PathChoices, o \in ObjIds \cup {Null},
          fields \in FieldChoices, method \in Methods :
            request(path, o, fields, method)

Next == Request

Spec == Init /\ [][Next]_vars

(***************************************************************************)
(* JSON.parse on the response text.  The text is a sequence of lexical     *)
(* atoms: braces, commas, whole members, the literal null, and a piece of  *)
(* text that is no JSON.                                                   *)
(***************************************************************************)
MErrNotFound == "\"error\":\"not found\""
MErrEmpty == "\"error\":\"\""
MData == "\"data\":{\"id\":1}"
NotJson == "not-json"

MemberAtoms == {MErrNotFound, MErrEmpty, MData}
BodyAtoms == {"{", "}", ",", "null", NotJson} \cup MemberAtoms

IdOne == [t |-> "object", id |-> JNum(1)]
MemberKey(a) == IF a = MData THEN "data" ELSE "error"
MemberValue(a) ==
    CASE a = MErrNotFound -> JStr(<<"not found">>)
      [] a = MErrEmpty    -> JStr(<< >>)
      [] a = MData        -> IdOne

SyntaxError == [t |-> "SyntaxError"]

\* member (, member)*
IsMemberList(s) ==
    /\ Len(s) % 2 = 1
    /\ \A i \in 1..Len(s) : IF i % 2 = 1 THEN s[i] \in MemberAtoms ELSE s[i] = ","

IsObjectText(text) ==
    /\ Len(text) >= 2
    /\ text[1] = "{"
    /\ text[Len(text)] = "}"
    /\ \/ Len(text) = 2
       \/ IsMemberList(SubSeq(text, 2, Len(text) - 1))

\* The value of key in the object text: the last member of that key wins.
FieldOf(text, key) ==
    LET at == {i \in 2..(Len(text) - 1) :
                  text[i] \in MemberAtoms /\ MemberKey(text[i]) = key}
    IN  IF at = {} THEN Undefined
        ELSE MemberValue(text[CHOOSE i \in at : \A j \in at : j <= i])

JSONparse(text) ==
    IF text = <<"null">> THEN JNull
    ELSE IF IsObjectText(text)
         THEN JObj(FieldOf(text, "error"), FieldOf(text, "data"))
         ELSE SyntaxError

\* if (v): the truth value of a JavaScript value.
Truthy(v) ==
    CASE v.t = "undefined" -> FALSE
      [] v.t = "null"      -> FALSE
      [] v.t = "string"    -> v.s # << >>
      [] v.t = "number"    -> v.n # 0
      [] OTHER             -> TRUE

(***************************************************************************)
(* The server transport: the callback of httpTransport.request and the     *)
(* handlers it registers.                                                  *)
(***************************************************************************)
ConcatFront(body, chunk) == chunk \o body

\* body += chunk
Concat(body, chunk) == body \o chunk

EndOutcomeRejectsErrorField(promise, body) ==
    LET data == JSONparse(body)
    IN  IF data.t = "SyntaxError" THEN Reject(promise, JStr(body))
        ELSE IF data.t = "null" THEN promise
        ELSE IF Truthy(data.error) THEN Reject(promise, data.error)
        ELSE Resolve(promise, data.data)

EndOutcomeByPresence(promise, body) ==
    LET data == JSONparse(body)
    IN  IF data.t = "SyntaxError" THEN Reject(promise, JStr(body))
        ELSE IF data.t = "null" THEN promise
        ELSE IF data.error # Undefined THEN Reject(promise, data)
        ELSE Resolve(promise, data.data)

\* The 'end' handler.  For the text null, JSON.parse returns null and the
\* read of data.error throws a TypeError out of the handler: the promise is
\* left as it was.
EndOutcome(promise, body) ==
    LET data == JSONparse(body)
    IN  IF data.t = "SyntaxError" THEN Reject(promise, JStr(body))
        ELSE IF data.t = "null" THEN promise
        ELSE IF Truthy(data.error) THEN Reject(promise, data)
        ELSE Resolve(promise, data.data)

TransportErrors == {ErrorObj("ECONNRESET"), ErrorObj("ETIMEDOUT")}

ServerCalls == IF isBrowser THEN {} ELSE 1..Len(calls)

\* httpTransport calls the callback with the response.
Response(c) ==
    /\ c \in ServerCalls
    /\ ~calls[c].responded
    /\ calls' = [calls EXCEPT ![c].responded = TRUE, ![c].body = << >>]
    /\ UNCHANGED <<isBrowser, httpParams, httpOptions, httpOptions0, objs, objs0,
                   sent, windowCallback, inflight>>

\* response 'data'
Data(c, chunk) ==
    /\ c \in ServerCalls
    /\ calls[c].responded
    /\ Len(calls[c].body) < MaxBody
    /\ calls' = [calls EXCEPT ![c].body = Concat(@, chunk),
                              ![c].arrived = Append(@, chunk)]
    /\ UNCHANGED <<isBrowser, httpParams, httpOptions, httpOptions0, objs, objs0,
                   sent, windowCallback, inflight>>

\* response 'end'
End(c) ==
    /\ c \in ServerCalls
    /\ calls[c].responded
    /\ calls' = [calls EXCEPT
                   ![c].promise = EndOutcome(@, calls[c].body),
                   ![c].first = IF @ = "none" THEN "end" ELSE @,
                   ![c].firstArrived =
                       IF calls[c].first = "none" THEN calls[c].arrived ELSE @]
    /\ UNCHANGED <<isBrowser, httpParams, httpOptions, httpOptions0, objs, objs0,
                   sent, windowCallback, inflight>>

\* request 'error': the listener is reject itself.
Error(c, err) ==
    /\ c \in ServerCalls
    /\ calls' = [calls EXCEPT
                   ![c].promise = Reject(@, err),
                   ![c].first = IF @ = "none" THEN "error" ELSE @,
                   ![c].firstArrived =
                       IF calls[c].first = "none" THEN calls[c].arrived ELSE @]
    /\ UNCHANGED <<isBrowser, httpParams, httpOptions, httpOptions0, objs, objs0,
                   sent, windowCallback, inflight>>

(***************************************************************************)
(* One call on the server and every order of its transport events.         *)
(***************************************************************************)
InitServer ==
    /\ isBrowser = FALSE
    /\ httpParams = << <<"apiKey", <<"k1">>>> >>
    /\ httpOptions = ConfiguredOptions
    /\ httpOptions0 = httpOptions
    /\ objs = [o \in ObjIds |-> << >>]
    /\ objs0 = objs
    /\ sent = NoneSent
    /\ calls = << >>
    /\ windowCallback = 0
    /\ inflight = {}

ServerRequest ==
    /\ calls = << >>
    /\ request(<<"task">>, Null, NoFields, "GET")

NextServer ==
    \/ ServerRequest
    \/ \E c \in 1..Len(calls) : Response(c)
    \/ \E c \in 1..Len(calls), a \in BodyAtoms : Data(c, <<a>>)
    \/ \E c \in 1..Len(calls) : End(c)
    \/ \E c \in 1..Len(calls), err \in TransportErrors : Error(c, err)

SpecServer == InitServer /\ [][NextServer]_vars

(***************************************************************************)
(* The browser transport: the injected script calls window['callback']     *)
(* with the payload the server produced for that script's request.         *)
(***************************************************************************)
PayloadOf(c) == [t |-> "object", forCall |-> c]

\* What the server may answer to the script of call c.
JsonpPayloads(c) ==
    { JObj(Undefined, PayloadOf(c)), JObj(PayloadOf(c), Undefined), JNull }

CallbackPerCall(slot, c) == c

\* The closure that runs when the script of call c executes callback(...):
\* the one the global slot holds at that moment.
CallbackTarget(slot, c) == slot

\* The function stored in window['callback'].  On a null payload the read of
\* jsonpData.error throws and the promise is left as it was.
JsonpOutcome(promise, jsonpData) ==
    IF jsonpData.t = "null" THEN promise
    ELSE IF Truthy(jsonpData.error) THEN Reject(promise, jsonpData.error)
    ELSE Resolve(promise, jsonpData.data)

JsonpResponse(c, jsonpData) ==
    /\ isBrowser
    /\ c \in inflight
    /\ LET k == CallbackTarget(windowCallback, c)
           settles == calls[k].promise.state = "pending" /\ jsonpData.t # "null"
           ran == [calls EXCEPT ![k].promise = JsonpOutcome(@, jsonpData),
                                ![k].by = IF settles THEN c ELSE @]
       IN  calls' = [ran EXCEPT ![c].payload = jsonpData,
                                ![c].target = k,
                                ![c].issuedAt = Len(calls)]
    /\ inflight' = inflight \ {c}
    /\ UNCHANGED <<isBrowser, httpParams, httpOptions, httpOptions0, objs, objs0,
                   sent, windowCallback>>

(***************************************************************************)
(* Calls in the browser and every order of their JSONP responses.          *)
(***************************************************************************)
InitBrowser ==
    /\ isBrowser = TRUE
    /\ httpParams = << <<"apiKey", <<"k1">>>> >>
    /\ httpOptions = ConfiguredOptions
    /\ httpOptions0 = httpOptions
    /\ objs = [o \in ObjIds |-> << >>]
    /\ objs0 = objs
    /\ sent = NoneSent
    /\ calls = << >>
    /\ windowCallback = 0
    /\ inflight = {}

BrowserRequest ==
    /\ Len(calls) < MaxJsonpCalls
    /\ \E o \in ObjIds \cup {Null}, method \in {"GET", "POST"} :
           request(<<"task">>, o, NoFields, method)

NextBrowser ==
    \/ BrowserRequest
    \/ \E c \in 1..Len(calls) :
          \E jsonpData \in JsonpPayloads(c) : JsonpResponse(c, jsonpData)

SpecBrowser == InitBrowser /\ [][NextBrowser]_vars

(***************************************************************************)
(* Reading a request path back: the part before the first "?" and the      *)
(* query string after it.                                                  *)
(***************************************************************************)
HasQuery(p) == \E i \in 1..Len(p) : p[i] = "?"
QueryAt(p) == CHOOSE i \in 1..Len(p) : p[i] = "?" /\ \A j \in 1..(i - 1) : p[j] # "?"
PathPart(p) == IF HasQuery(p) THEN SubSeq(p, 1, QueryAt(p) - 1) ELSE p
QueryPart(p) == IF HasQuery(p) THEN SubSeq(p, QueryAt(p) + 1, Len(p)) ELSE << >>

RECURSIVE Flatten(_)
\* The strings of a list, concatenated in order.
Flatten(list) == IF list = << >> THEN << >> ELSE Head(list) \o Flatten(Tail(list))

StartsWithSlash(path) == path # << >> /\ Head(path) = "/"
FormType == JStr(<<"application/x-www-form-urlencoded">>)

(***************************************************************************)
(* C5: a key present in both httpParams and the params passed to request() *)
(* is sent with the value the caller passed.                               *)
(***************************************************************************)
C5_ExplicitParamsWin ==
    sent.transport # "none" =>
        \A k \in Keys(sent.given) \cap Keys(httpParams) :
            Get(sent.params, k) = Get(sent.given, k)

(***************************************************************************)
(* C6: after any call the caller's params object has the keys and values   *)
(* it had before the call.                                                 *)
(***************************************************************************)
C6_CallerParamsUntouched == objs = objs0

(***************************************************************************)
(* C7, as claimed: on the server GET and PUT carry the serialized          *)
(* parameters as the query string and write no body; POST and DELETE write *)
(* them as the body, carry no query string, and have Content-Type and a    *)
(* Content-Length equal to the byte length of the serialized string.       *)
(***************************************************************************)
C7_PlacementAlwaysWithHeaders ==
    sent.transport = "http" =>
        IF sent.method \in {"POST", "DELETE"}
        THEN /\ Flatten(sent.written) = sent.qs
             /\ ~HasQuery(sent.path)
             /\ Has(sent.headers, "Content-Type")
             /\ Has(sent.headers, "Content-Length")
             /\ Get(sent.headers, "Content-Type") = FormType
             /\ Get(sent.headers, "Content-Length") = JNum(ByteLength(sent.qs))
        ELSE /\ QueryPart(sent.path) = sent.qs
             /\ sent.written = << >>

(***************************************************************************)
(* C7, amended: the placement holds for every call; the two headers are    *)
(* set by the call whenever the serialized string is not empty.  With an   *)
(* empty string nothing is appended and nothing is written.                *)
(***************************************************************************)
C7_PlacementByMethod ==
    sent.transport = "http" =>
        /\ sent.qs = << >> => ~HasQuery(sent.path) /\ sent.written = << >>
        /\ IF sent.method \in {"POST", "DELETE"}
           THEN /\ Flatten(sent.written) = sent.qs
                /\ ~HasQuery(sent.path)
                /\ sent.qs # << >> =>
                     /\ Has(sent.headers, "Content-Type")
                     /\ Has(sent.headers, "Content-Length")
                     /\ Get(sent.headers, "Content-Type") = FormType
                     /\ Get(sent.headers, "Content-Length") = JNum(ByteLength(sent.qs))
           ELSE /\ QueryPart(sent.path) = sent.qs
                /\ sent.qs # << >> => HasQuery(sent.path)
                /\ sent.written = << >>

C7_Witness ==
    /\ sent.transport = "http"
    /\ sent.method = "DELETE"
    /\ Has(sent.params, "q")
    /\ Has(sent.params, "fields")
    /\ sent.written = <<sent.qs>>

(***************************************************************************)
(* C8: for a path argument beginning with "/" the request path is the base *)
(* path directly followed by the argument, with no double separator; for   *)
(* any other argument exactly one separator stands between the two.        *)
(***************************************************************************)
C8_PathJoin ==
    sent.transport # "none" =>
        LET base == httpOptions0.path
            arg == sent.pathArg
            joined == PathPart(sent.path)
            n == Len(base)
        IN  IF StartsWithSlash(arg)
            THEN /\ joined = base \o arg
                 /\ ~(joined[n] = "/" /\ joined[n + 1] = "/")
            ELSE /\ Len(joined) = n + 1 + Len(arg)
                 /\ SubSeq(joined, 1, n) = base
                 /\ joined[n + 1] = "/"
                 /\ SubSeq(joined, n + 2, Len(joined)) = arg
                 /\ joined[n] # "/"

C8_Witness ==
    /\ sent.transport = "http"
    /\ StartsWithSlash(sent.pathArg)
    /\ sent.method = "GET"
    /\ HasQuery(sent.path)

(***************************************************************************)
(* C9: httpOptions, headers included, is unchanged by any sequence of      *)
(* calls, and a GET or PUT carries no Content-Type or Content-Length left  *)
(* by an earlier POST or DELETE.                                           *)
(***************************************************************************)
C9_TransportConfigReadOnly ==
    /\ httpOptions = httpOptions0
    /\ sent.transport = "http" /\ sent.method \in {"GET", "PUT"} =>
         /\ ~Has(sent.headers, "Content-Type")
         /\ ~Has(sent.headers, "Content-Length")

(***************************************************************************)
(* Server claims.  firstArrived holds the chunks a call had received when  *)
(* its first terminal event ('end' or 'error') was delivered.  The claims  *)
(* about a completed response speak of a call whose first terminal event   *)
(* is 'end': after an earlier 'error' the promise is already rejected.     *)
(***************************************************************************)
TextAtFirst(c) == Flatten(calls[c].firstArrived)
ParsedAtFirst(c) == JSONparse(TextAtFirst(c))
EndedFirst(c) == calls[c].first = "end"

(***************************************************************************)
(* C1: once a terminal transport event ('end' or 'error') of a call has    *)
(* fired, the call's promise is resolved or rejected.                      *)
(***************************************************************************)
C1_SettledOnceTerminalFired ==
    \A c \in 1..Len(calls) :
        calls[c].first # "none" => calls[c].promise.state # "pending"

(***************************************************************************)
(* C2, as claimed: a completed body that parses to an envelope carrying an *)
(* error field rejects the promise with the value of that field.           *)
(***************************************************************************)
C2_RejectsWithErrorField ==
    \A c \in 1..Len(calls) :
        (/\ EndedFirst(c)
         /\ ParsedAtFirst(c).t = "object"
         /\ ParsedAtFirst(c).error # Undefined)
        => calls[c].promise = [state |-> "rejected", value |-> ParsedAtFirst(c).error]

(***************************************************************************)
(* C2, amended: a completed body that parses to an envelope whose error    *)
(* field is truthy rejects the promise with the whole parsed envelope.     *)
(***************************************************************************)
C2_RejectsWithEnvelope ==
    \A c \in 1..Len(calls) :
        (/\ EndedFirst(c)
         /\ ParsedAtFirst(c).t = "object"
         /\ Truthy(ParsedAtFirst(c).error))
        => calls[c].promise = [state |-> "rejected", value |-> ParsedAtFirst(c)]

C2_Witness ==
    \E c \in 1..Len(calls) :
        /\ EndedFirst(c)
        /\ TextAtFirst(c) = <<"{", MErrNotFound, "}">>
        /\ calls[c].promise.state = "rejected"

(***************************************************************************)
(* C3, as claimed: for a body that parses to an envelope the promise is    *)
(* rejected exactly when the envelope contains an error field, whatever    *)
(* its value, and is otherwise resolved with the data field.               *)
(***************************************************************************)
C3_RejectedIffErrorPresent ==
    \A c \in 1..Len(calls) :
        (EndedFirst(c) /\ ParsedAtFirst(c).t = "object") =>
            /\ calls[c].promise.state = "rejected" <=> ParsedAtFirst(c).error # Undefined
            /\ ParsedAtFirst(c).error = Undefined =>
                 calls[c].promise = [state |-> "fulfilled", value |-> ParsedAtFirst(c).data]

(***************************************************************************)
(* C3, amended: for a body that parses to an envelope the promise is       *)
(* rejected exactly when the error field is truthy; with the field absent  *)
(* or falsy (the empty string, 0, false, null) the promise is resolved     *)
(* with the data field.                                                    *)
(***************************************************************************)
C3_RejectedIffErrorTruthy ==
    \A c \in 1..Len(calls) :
        (EndedFirst(c) /\ ParsedAtFirst(c).t = "object") =>
            /\ calls[c].promise.state = "rejected" <=> Truthy(ParsedAtFirst(c).error)
            /\ ~Truthy(ParsedAtFirst(c).error) =>
                 calls[c].promise = [state |-> "fulfilled", value |-> ParsedAtFirst(c).data]

C3_Witness ==
    \E c \in 1..Len(calls) :
        /\ EndedFirst(c)
        /\ TextAtFirst(c) = <<"{", MErrEmpty, "}">>
        /\ calls[c].promise.state = "fulfilled"

(***************************************************************************)
(* C4: when the stream completes and the chunks received, concatenated in  *)
(* arrival order, are no valid JSON, the promise is rejected with exactly  *)
(* that text as a string, and is not resolved.                             *)
(***************************************************************************)
C4_RejectsWithRawText ==
    \A c \in 1..Len(calls) :
        (EndedFirst(c) /\ ParsedAtFirst(c) = SyntaxError) =>
            calls[c].promise = [state |-> "rejected", value |-> JStr(TextAtFirst(c))]

C4_Witness ==
    \E c \in 1..Len(calls) :
        /\ EndedFirst(c)
        /\ calls[c].firstArrived = << <<NotJson>>, <<"{">> >>
        /\ calls[c].promise.state = "rejected"
        /\ calls[c].body # TextAtFirst(c)

(***************************************************************************)
(* C10: window['callback'] is one slot that every call overwrites.  A call *)
(* whose registration was overwritten while its promise was pending is     *)
(* never settled; every response that arrives runs the closure of the most *)
(* recently issued call, so it settles that call's promise (when still     *)
(* pending) with the payload that arrived, whichever call the payload      *)
(* answers.  A null payload makes the closure throw and settles nothing.   *)
(***************************************************************************)
C10_SingleSlotClobbered ==
    \A k \in 1..Len(calls) :
        /\ calls[k].clobbered => calls[k].promise.state = "pending"
        /\ calls[k].target # 0 =>
             /\ calls[k].target = calls[k].issuedAt
             /\ calls[k].payload.t = "object" =>
                  calls[calls[k].target].promise.state # "pending"
        /\ calls[k].promise.state # "pending" =>
             /\ calls[k].by \in 1..Len(calls)
             /\ calls[calls[k].by].target = k
             /\ calls[k].promise = JsonpOutcome(Pending, calls[calls[k].by].payload)

C10_Witness ==
    /\ Len(calls) = 2
    /\ calls[1].clobbered
    /\ calls[1].promise.state = "pending"
    /\ calls[1].target = 2
    /\ inflight = {2}
    /\ calls[2].promise = [state |-> "fulfilled", value |-> PayloadOf(1)]

====
